---- MODULE Spec2Model ----
(***************************************************************************)
(* Model of the streaming composition pipeline of deepgemini:              *)
(*   app/clients/openai_compatible_composite.py  (OpenAICompatibleComposite)*)
(*   app/clients/deepseek_client.py              (DeepSeekClient)          *)
(*   app/clients/openai_compatible_client.py     (OpenAICompatibleClient)  *)
(*   app/clients/gemini_client_new.py            (GeminiClientNew)         *)
(*                                                                         *)
(* One composite instance serves sessions one after the other.  A session  *)
(* is one call of chat_completions_with_stream: the generator body (the    *)
(* Composer) and the two tasks process_deepseek and process_openai, all on *)
(* one asyncio event loop.  An action is the code that runs between two    *)
(* points where a coroutine really suspends: a put on an unbounded         *)
(* asyncio.Queue never suspends, a get on an empty one does, and so does   *)
(* a read from the network.                                                *)
(*                                                                         *)
(* Texts are sequences of string tokens; "" is << >> and string            *)
(* concatenation is \o.                                                    *)
(***************************************************************************)
EXTENDS Integers, Sequences, FiniteSets, TLC

\* ---------------------------------------------------------------- bounds
\* Units (lines of the HTTP stream, chunks of the Gemini stream) one adapter
\* call reads before the provider closes the stream or the transport fails.
MaxUnits == 4

\* ---------------------------------------------------------------- inputs
Msg(role, content) == [role |-> role, content |-> content]

\* The message lists a caller passes.
MessageLists ==
    { << >>,
      << Msg("user", <<"What is 2+2?">>) >>,
      << Msg("user", <<"What is 2+2?">>), Msg("assistant", <<"4">>) >> }

\* Readings of time.time() at the start of a session.
Clock == {"t1"}

\* Text of the i-th increment of the reasoner and of the summarizer.
\* An increment's text is a sequence of characters.
RText ==
    << <<"L", "e", "t", "'", "s">>, <<"t", "h", "i", "n", "k">>,
       <<"s", "t", "e", "p", "s", ":">>, <<"2", "+", "2", "=", "4">>,
       <<"r", "5">>, <<"r", "6">>, <<"r", "7">>, <<"r", "8">> >>
SText ==
    << <<"T", "h", "e">>, <<"a", "n", "s", "w", "e", "r">>, <<"i", "s">>,
       <<"4", ".">>, <<"s", "5">>, <<"s", "6">>, <<"s", "7">>, <<"s", "8">> >>
RTexts(i) == { RText[i] }
STexts(i) == { SText[i] }

\* A usage object of a streamed line: absent (<< >>) or <<total_tokens>>.
Usages == { << >>, <<1>> }

deepseek_model == "deepseek-reasoner"
target_model == "gemini-2.0-flash"

VARIABLES
    \* ---- the composite instance and its two clients
    is_origin_reasoning,  \* OpenAICompatibleComposite.is_origin_reasoning
    isGemini,             \* openai_client is a GeminiClientNew
    deepseek_tokens,      \* OpenAICompatibleComposite.deepseek_tokens
    gemini_tokens,        \* OpenAICompatibleComposite.gemini_tokens
    dsTokenCount,         \* DeepSeekClient.token_count
    oaTokenCount,         \* GeminiClientNew.token_count
    \* ---- one session (one call of chat_completions_with_stream)
    messages,             \* the caller's list of message dicts (shared objects)
    chat_id, created_time,
    output_queue, reasoning_queue,
    reasoning_content,    \* list of reasoning texts accumulated
    tasks_done,
    pcC,                  \* Composer: idle, get, marker, returned, abandoned
    pcDS,                 \* process_deepseek: none, created, reading, done
    pcOA,                 \* process_openai: none, created, waiting, reading, done
    dsUnits, oaUnits,     \* units read by the current adapter call
    total_tokens,         \* local of GeminiClientNew.stream_chat.process_stream
    \* ---- history (never read by an action's guard or effect on program state)
    sessions,             \* none, first, later: sessions started on the instance
    callerMessages,       \* the message list as the caller passed it
    emitted,              \* items the generator has yielded to the caller
    pushLog,              \* every put on output_queue: [by, item]
    dsYielded, oaYielded, \* increments the adapters have yielded
    dsEnd,                \* how the reasoner call ended: none, content, failed, exhausted
                          \*   (aborted: the stage was ended by a log call that raised)
    oaEnd,                \* summarizer stage: none, invalid, failed, completed, aborted
    oaSent,               \* << >> or <<messages passed to the summarizer adapter>>
    published,            \* traces put on reasoning_queue
    taskExc,              \* tasks that ended with an exception nobody caught
    callerExc,            \* an exception left the generator towards the caller
    malformed,            \* the malformed unit the step just taken has read, if
                          \*   any: {} or {[by, kind]}
    \* ---- sessions that run at the same time on the instance (ConcSpec)
    cs                    \* session id -> the locals of that call and its history

instanceVars == <<is_origin_reasoning, isGemini, deepseek_tokens, gemini_tokens,
                  dsTokenCount, oaTokenCount>>
sessionVars == <<messages, chat_id, created_time, output_queue, reasoning_queue,
                 reasoning_content, tasks_done, pcC, pcDS, pcOA, dsUnits, oaUnits,
                 total_tokens>>
historyVars == <<sessions, callerMessages, emitted, pushLog, dsYielded, oaYielded,
                 dsEnd, oaEnd, oaSent, published, taskExc, callerExc, malformed>>
vars == <<instanceVars, sessionVars, historyVars, cs>>

\* ------------------------------------------------------------- framing
\* "".join(list)
RECURSIVE Join(_)
Join(list) == IF list = << >> THEN << >> ELSE Head(list) \o Join(Tail(list))

\* The response dict of process_deepseek / process_openai, as the SSE event
\* f"data: {json.dumps(response)}\n\n".encode("utf-8").
Frame(id, created, model, reasoning, content) ==
    [sse |-> "data",
     payload |-> [id |-> id, object |-> "chat.completion.chunk",
                  created |-> created, model |-> model,
                  choices |-> << [index |-> 0,
                                  delta |-> [role |-> "assistant",
                                             reasoning_content |-> reasoning,
                                             content |-> content]] >>]]

\* The delta of a data event, as the caller reads it (app.py).
Delta(item) == item.payload.choices[1].delta

ReasoningChunk(id, created, text) == Frame(id, created, deepseek_model, text, << >>)

\* Mutant: the chunk is stamped with a later reading of the clock.
ContentChunkFreshId(id, created, text) ==
    Frame(<<"chatcmpl-", "t2">>, "t2", target_model, << >>, text)

\* Mutant: the answer text is framed in the reasoning field.
ContentChunkAsReasoning(id, created, text) ==
    Frame(id, created, target_model, text, << >>)

ContentChunk(id, created, text) == Frame(id, created, target_model, << >>, text)

\* None on output_queue: the end-of-stage sentinel.
Sentinel == [sse |-> "None"]
\* b"data: [DONE]\n\n"
DoneMarker == [sse |-> "[DONE]"]

ChatId(t) == <<"chatcmpl-", t>>

\* Mutant: the queue hands items out last-in first-out.
PutFront(by, items) ==
    /\ output_queue' = items \o output_queue
    /\ pushLog' = pushLog \o [i \in 1..Len(items) |-> [by |-> by, item |-> items[i]]]

\* put on output_queue (unbounded: never suspends), with its history.
Put(by, items) ==
    /\ output_queue' = output_queue \o items
    /\ pushLog' = pushLog \o [i \in 1..Len(items) |-> [by |-> by, item |-> items[i]]]

\* ------------------------------------------------------------- prompts
\* DeepSeekClient.stream_chat: the step-by-step rewrite of the last user message.
CoTPrompt(original_content) ==
    <<"CoT request, question: ">> \o original_content \o <<" thinking: ">>

\* Does stream_chat rewrite the last message?
RewritesLast(origin, msgs) ==
    origin /\ msgs # << >> /\ msgs[Len(msgs)].role = "user"

\* The placeholder that stands for an empty trace.
Placeholder == <<"reasoning unavailable">>

\* process_openai: reasoning as used in the prompt.
ReasoningOrPlaceholder(reasoning) ==
    IF reasoning = << >> THEN Placeholder ELSE reasoning

combined_content(reasoning) ==
    <<"Here's my another model's reasoning process:">> \o reasoning
        \o <<"Based on this reasoning, please provide a comprehensive response:">>

fixed_content(original_content, reasoning) ==
    <<"Here's my original input:">> \o original_content \o combined_content(reasoning)

\* process_openai: the two checks before the prompt is built.
ValidMessages(msgs) ==
    /\ msgs # << >>
    /\ msgs[Len(msgs)].role = "user"

\* ------------------------------------------------------------- Init
\* The calls that may run at the same time, and the locals of a call that
\* has not started.
SessionIds == {"A", "B"}
ConcIdle ==
    [pcC |-> "idle", pcDS |-> "none", pcOA |-> "none",
     messages |-> << >>, chat_id |-> << >>, created_time |-> "t0",
     output_queue |-> << >>, reasoning_queue |-> << >>,
     reasoning_content |-> << >>, tasks_done |-> 0,
     dsUnits |-> 0, oaUnits |-> 0, total_tokens |-> 0,
     emitted |-> << >>, dsYielded |-> << >>, oaYielded |-> << >>,
     published |-> << >>, got |-> << >>]

Init ==
    /\ is_origin_reasoning \in BOOLEAN
    /\ isGemini \in BOOLEAN
    /\ deepseek_tokens = 0
    /\ gemini_tokens = 0
    /\ dsTokenCount = 0
    /\ oaTokenCount = 0
    /\ messages = << >>
    /\ chat_id = << >>
    /\ created_time = "t0"
    /\ output_queue = << >>
    /\ reasoning_queue = << >>
    /\ reasoning_content = << >>
    /\ tasks_done = 0
    /\ pcC = "idle"
    /\ pcDS = "none"
    /\ pcOA = "none"
    /\ dsUnits = 0
    /\ oaUnits = 0
    /\ total_tokens = 0
    /\ sessions = "none"
    /\ callerMessages = << >>
    /\ emitted = << >>
    /\ pushLog = << >>
    /\ dsYielded = << >>
    /\ oaYielded = << >>
    /\ dsEnd = "none"
    /\ oaEnd = "none"
    /\ oaSent = << >>
    /\ published = << >>
    /\ taskExc = {}
    /\ callerExc = FALSE
    /\ malformed = {}
    /\ cs = [s \in SessionIds |-> ConcIdle]

\* GeminiClientNew.stream_chat iterates the provider's stream synchronously:
\* from the moment process_openai calls it until it ends, no other coroutine
\* of the event loop runs.
LoopBlocked == isGemini /\ pcOA = "reading"

\* ------------------------------------------------------------- Composer
\* First __anext__ on the generator: ids, queues, the two tasks, then the
\* Composer suspends in output_queue.get().
StartSession ==
    /\ pcC \in {"idle", "returned"}
    /\ \E msgs \in MessageLists, t \in Clock :
          /\ messages' = msgs
          /\ callerMessages' = msgs
          /\ chat_id' = ChatId(t)
          /\ created_time' = t
    /\ output_queue' = << >>
    /\ reasoning_queue' = << >>
    /\ reasoning_content' = << >>
    /\ tasks_done' = 0
    /\ pcC' = "get"
    /\ pcDS' = "created"
    /\ pcOA' = "created"
    /\ dsUnits' = 0
    /\ oaUnits' = 0
    /\ total_tokens' = 0
    /\ sessions' = IF sessions = "none" THEN "first" ELSE "later"
    /\ emitted' = << >>
    /\ pushLog' = << >>
    /\ dsYielded' = << >>
    /\ oaYielded' = << >>
    /\ dsEnd' = "none"
    /\ oaEnd' = "none"
    /\ oaSent' = << >>
    /\ published' = << >>
    /\ taskExc' = {}
    /\ callerExc' = FALSE
    /\ malformed' = {}
    /\ UNCHANGED cs
    /\ UNCHANGED instanceVars

\* ------------------------------------------------------------- reasoner
\* Units of the DeepSeek / OpenAI-compatible line protocol, after the blank and
\* "data: [DONE]" lines are dropped:
\*   text      a "data: " line whose delta carries non-empty content
\*   empty     a "data: " line whose delta carries no content
\*   badjson   a "data: " line that json.loads rejects
\*   badshape  a "data: " line of valid JSON on which the lookups raise
\*             (for instance "choices": [])
LineUnits(texts, usages) ==
    [kind : {"text"}, text : texts, usage : usages]
        \cup [kind : {"empty"}, text : {<< >>}, usage : usages]
        \cup [kind : {"badjson", "badshape"}, text : {<< >>}, usage : {<< >>}]

\* History: the unit just read, when it is a malformed one.
Noted(by, unit) ==
    IF unit.kind \in {"badjson", "badshape"}
    THEN {[by |-> by, kind |-> unit.kind]}
    ELSE {}

\* DeepSeekClient.stream_chat, one line of the stream: the new token_count,
\* the text yielded (<< >> or <<text>>), and whether an exception leaves the loop.
DeepSeekLine(unit, token_count) ==
    CASE unit.kind = "badshape" ->
            [token_count |-> token_count, yield |-> << >>, raised |-> TRUE]
      [] unit.kind = "badjson" ->
            [token_count |-> token_count, yield |-> << >>, raised |-> FALSE]
      [] OTHER ->
            [token_count |-> IF unit.usage # << >> THEN unit.usage[1] ELSE token_count,
             yield |-> IF unit.text # << >> THEN <<unit.text>> ELSE << >>,
             raised |-> FALSE]

\* Mutant: every text increment is tagged "content", whatever the mode.
ContentTypeAlwaysContent(origin) == "content"

\* DeepSeekClient.stream_chat: the tag of a text increment.
ContentType(origin) == IF origin THEN "reasoning" ELSE "content"

\* Mutant: only the last reasoning increment is published.
TraceOnContentLast(list) == IF list = << >> THEN << >> ELSE list[Len(list)]

\* process_deepseek: the trace published when a "content" increment arrives.
TraceOnContent(list) == Join(list)

\* Mutant: the partial trace is published on failure.
TraceOnErrorPartial(list) == Join(list)

\* process_deepseek: the trace published when the adapter raises.
TraceOnError(list) == << >>

\* process_deepseek, first step: the task starts, calls stream_chat, which
\* rewrites the last user message in place and posts the request.
DSStart ==
    /\ pcDS = "created"
    /\ messages' = IF RewritesLast(is_origin_reasoning, messages)
                   THEN [messages EXCEPT ![Len(messages)].content = CoTPrompt(@)]
                   ELSE messages
    /\ pcDS' = "reading"
    /\ UNCHANGED <<instanceVars, chat_id, created_time, output_queue, reasoning_queue,
                   reasoning_content, tasks_done, pcC, pcOA, dsUnits, oaUnits,
                   total_tokens, historyVars, cs>>

\* Mutant: the trace accumulated so far is published at every reasoning
\* increment.
DSReasoningPublishesEarly(content) ==
    /\ reasoning_content' = Append(reasoning_content, content)
    /\ Put("deepseek", <<ReasoningChunk(chat_id, created_time, content)>>)
    /\ dsYielded' = Append(dsYielded, [type |-> "reasoning", text |-> content])
    /\ dsUnits' = dsUnits + 1
    /\ reasoning_queue' = Append(reasoning_queue, Join(reasoning_content'))
    /\ published' = Append(published, Join(reasoning_content'))
    /\ UNCHANGED <<pcDS, dsEnd>>

\* Mutant: the reasoning chunk is pushed twice.
DSReasoningTwice(content) ==
    /\ reasoning_content' = Append(reasoning_content, content)
    /\ Put("deepseek", <<ReasoningChunk(chat_id, created_time, content),
                         ReasoningChunk(chat_id, created_time, content)>>)
    /\ dsYielded' = Append(dsYielded, [type |-> "reasoning", text |-> content])
    /\ dsUnits' = dsUnits + 1
    /\ UNCHANGED <<reasoning_queue, pcDS, dsEnd, published>>

\* process_deepseek, loop body for a "reasoning" increment.
DSReasoning(content) ==
    /\ reasoning_content' = Append(reasoning_content, content)
    /\ Put("deepseek", <<ReasoningChunk(chat_id, created_time, content)>>)
    /\ dsYielded' = Append(dsYielded, [type |-> "reasoning", text |-> content])
    /\ dsUnits' = dsUnits + 1
    /\ UNCHANGED <<reasoning_queue, pcDS, dsEnd, published>>

\* Mutant: no break after the publication: the stage goes on reading.
DSContentNoBreak(content) ==
    /\ reasoning_queue' = Append(reasoning_queue, TraceOnContent(reasoning_content))
    /\ published' = Append(published, TraceOnContent(reasoning_content))
    /\ dsYielded' = Append(dsYielded, [type |-> "content", text |-> content])
    /\ dsUnits' = dsUnits + 1
    /\ UNCHANGED <<reasoning_content, output_queue, pushLog, pcDS, dsEnd>>

\* Mutant: the trace is put on reasoning_queue twice.
DSContentPublishTwice(content) ==
    /\ reasoning_queue' = reasoning_queue \o <<TraceOnContent(reasoning_content),
                                                TraceOnContent(reasoning_content)>>
    /\ published' = published \o <<TraceOnContent(reasoning_content),
                                    TraceOnContent(reasoning_content)>>
    /\ Put("deepseek", <<Sentinel>>)
    /\ dsYielded' = Append(dsYielded, [type |-> "content", text |-> content])
    /\ pcDS' = "done"
    /\ dsUnits' = 0
    /\ dsEnd' = "content"
    /\ UNCHANGED reasoning_content

\* process_deepseek, loop body for a "content" increment: publish the trace,
\* break, push the sentinel; the task ends.
DSContent(content) ==
    /\ reasoning_queue' = Append(reasoning_queue, TraceOnContent(reasoning_content))
    /\ published' = Append(published, TraceOnContent(reasoning_content))
    /\ Put("deepseek", <<Sentinel>>)
    /\ dsYielded' = Append(dsYielded, [type |-> "content", text |-> content])
    /\ pcDS' = "done"
    /\ dsUnits' = 0
    /\ dsEnd' = "content"
    /\ UNCHANGED reasoning_content

\* Mutant: the except branch publishes the empty trace and the task ends
\* without pushing its sentinel.
DSExceptNoSentinel ==
    /\ reasoning_queue' = Append(reasoning_queue, TraceOnError(reasoning_content))
    /\ published' = Append(published, TraceOnError(reasoning_content))
    /\ pcDS' = "done"
    /\ dsUnits' = 0
    /\ dsEnd' = "failed"
    /\ UNCHANGED <<reasoning_content, dsYielded, output_queue, pushLog>>

\* process_deepseek, except branch: publish an empty trace, push the sentinel.
DSExcept ==
    /\ reasoning_queue' = Append(reasoning_queue, TraceOnError(reasoning_content))
    /\ published' = Append(published, TraceOnError(reasoning_content))
    /\ Put("deepseek", <<Sentinel>>)
    /\ pcDS' = "done"
    /\ dsUnits' = 0
    /\ dsEnd' = "failed"
    /\ UNCHANGED <<reasoning_content, dsYielded>>

\* process_deepseek: does `except Exception` catch what stream_chat raises?
DsHandles == TRUE

\* stream_chat raises into process_deepseek.
DSRaised ==
    IF DsHandles
    THEN DSExcept /\ UNCHANGED taskExc
    ELSE /\ pcDS' = "done"
         /\ dsUnits' = 0
         /\ dsEnd' = "failed"
         /\ taskExc' = taskExc \cup {"deepseek"}
         /\ UNCHANGED <<reasoning_queue, published, output_queue, pushLog,
                         reasoning_content, dsYielded>>

\* process_deepseek, the loop ends without a break: push the sentinel.
DSExhausted ==
    /\ Put("deepseek", <<Sentinel>>)
    /\ pcDS' = "done"
    /\ dsUnits' = 0
    /\ dsEnd' = "exhausted"
    /\ UNCHANGED <<reasoning_queue, published, reasoning_content, dsYielded>>

\* One line of the reasoner's stream arrives.
DSRead ==
    /\ pcDS = "reading"
    /\ pcOA # "created"
    /\ dsUnits < MaxUnits
    /\ \E unit \in LineUnits(RTexts(Len(dsYielded) + 1), Usages) :
         LET r == DeepSeekLine(unit, dsTokenCount) IN
           /\ dsTokenCount' = r.token_count
           /\ malformed' = Noted("deepseek", unit)
           /\ IF r.raised
              THEN DSRaised /\ UNCHANGED deepseek_tokens
              ELSE IF r.yield = << >>
              THEN /\ dsUnits' = dsUnits + 1
                   /\ UNCHANGED <<deepseek_tokens, reasoning_content, output_queue,
                                   pushLog, dsYielded, reasoning_queue, pcDS, dsEnd,
                                   published, taskExc>>
              ELSE /\ deepseek_tokens' = r.token_count
                   /\ UNCHANGED taskExc
                   /\ IF ContentType(is_origin_reasoning) = "reasoning"
                      THEN DSReasoning(r.yield[1])
                      ELSE DSContent(r.yield[1])
    /\ UNCHANGED <<is_origin_reasoning, isGemini, gemini_tokens, oaTokenCount,
                   messages, chat_id, created_time, tasks_done, pcC, pcOA, oaUnits,
                   total_tokens, sessions, callerMessages, emitted, oaYielded, oaEnd,
                   oaSent, callerExc, cs>>

\* The reasoner's stream ends normally: in reasoning mode stream_chat yields
\* the empty "content" increment, otherwise the iteration just stops.
DSEof ==
    /\ pcDS = "reading"
    /\ pcOA # "created"
    /\ IF is_origin_reasoning
       THEN /\ deepseek_tokens' = dsTokenCount
            /\ DSContent(<< >>)
       ELSE /\ DSExhausted
            /\ UNCHANGED deepseek_tokens
    /\ UNCHANGED <<is_origin_reasoning, isGemini, gemini_tokens, dsTokenCount,
                   oaTokenCount, messages, chat_id, created_time, tasks_done, pcC,
                   pcOA, oaUnits, total_tokens, sessions, callerMessages,
                   emitted, oaYielded, oaEnd, oaSent, taskExc, callerExc>>
    /\ malformed' = {}
    /\ UNCHANGED cs

\* The reasoner call fails: a status other than 200, or a transport error at
\* any point of the stream.  stream_chat logs and re-raises.
DSError ==
    /\ pcDS = "reading"
    /\ pcOA # "created"
    /\ DSRaised
    /\ UNCHANGED <<instanceVars, messages, chat_id, created_time, tasks_done, pcC,
                   pcOA, oaUnits, total_tokens, sessions, callerMessages,
                   emitted, oaYielded, oaEnd, oaSent, callerExc>>
    /\ malformed' = {}
    /\ UNCHANGED cs

\* ------------------------------------------------------------- summarizer
\* OpenAICompatibleClient.stream_chat, one line of the stream: the text
\* yielded (<< >> or <<text>>) and whether an exception leaves the loop.
OpenAILine(unit) ==
    CASE unit.kind = "badshape" -> [yield |-> << >>, raised |-> TRUE]
      [] unit.kind = "badjson" -> [yield |-> << >>, raised |-> FALSE]
      [] OTHER -> [yield |-> IF unit.text # << >> THEN <<unit.text>> ELSE << >>,
                   raised |-> FALSE]

\* Chunks of the Gemini stream: with a text attribute, or without one.
GeminiChunks(texts) ==
    [kind : {"text"}, text : texts] \cup [kind : {"notext"}, text : {<< >>}]

\* GeminiClientNew.stream_chat.process_stream: the token estimate of one chunk.
TokenEstimate(text) == Len(text) \div 3 + 1

\* Mutant: the task does not wait for the trace and goes on to read a stream.
OAStartNoWait ==
    /\ pcOA = "created"
    /\ pcDS # "created"
    /\ pcOA' = "reading"
    /\ UNCHANGED <<instanceVars, messages, chat_id, created_time, output_queue,
                   reasoning_queue, reasoning_content, tasks_done, pcC, pcDS,
                   dsUnits, oaUnits, total_tokens, historyVars, cs>>

\* process_openai, first step: the task starts and waits for the trace.
OAStart ==
    /\ pcOA = "created"
    /\ pcDS # "created"
    /\ pcOA' = "waiting"
    /\ UNCHANGED <<instanceVars, messages, chat_id, created_time, output_queue,
                   reasoning_queue, reasoning_content, tasks_done, pcC, pcDS,
                   dsUnits, oaUnits, total_tokens, historyVars, cs>>

\* Mutant: the sentinel is pushed on success only, not in a finally.
OAFinallyOnSuccess(how) ==
    /\ IF how = "completed"
       THEN Put("openai", <<Sentinel>>)
       ELSE UNCHANGED <<output_queue, pushLog>>
    /\ pcOA' = "done"
    /\ oaEnd' = how
    /\ oaUnits' = 0
    /\ total_tokens' = 0

\* process_openai, finally branch: push the sentinel; the task ends.
OAFinally(how) ==
    /\ Put("openai", <<Sentinel>>)
    /\ pcOA' = "done"
    /\ oaEnd' = how
    /\ oaUnits' = 0
    /\ total_tokens' = 0

\* process_openai: does `except Exception` catch what is raised in the try?
OaHandles == TRUE

\* An exception is raised inside the try of process_openai.
OARaised(how) ==
    /\ OAFinally(how)
    /\ taskExc' = IF OaHandles THEN taskExc ELSE taskExc \cup {"openai"}

\* process_openai gets the trace: placeholder, validation, prompt, and the
\* call of the summarizer adapter (which posts the request).
OAWake ==
    /\ pcOA = "waiting"
    /\ reasoning_queue # << >>
    /\ reasoning_queue' = Tail(reasoning_queue)
    /\ LET reasoning == ReasoningOrPlaceholder(Head(reasoning_queue)) IN
         IF ~ValidMessages(messages)
         THEN /\ OARaised("invalid")
              /\ UNCHANGED <<messages, oaSent>>
         ELSE /\ messages' = [messages EXCEPT
                                ![Len(messages)].content = fixed_content(@, reasoning)]
              /\ oaSent' = <<messages'>>
              /\ pcOA' = "reading"
              /\ oaUnits' = 0
              /\ total_tokens' = 0
              /\ UNCHANGED <<output_queue, pushLog, oaEnd, taskExc>>
    /\ UNCHANGED <<instanceVars, chat_id, created_time, reasoning_content,
                   tasks_done, pcC, pcDS, dsUnits, sessions, callerMessages,
                   emitted, dsYielded, oaYielded, dsEnd, published, callerExc>>
    /\ malformed' = {}
    /\ UNCHANGED cs

\* process_openai, loop body: frame the increment and push it.
OAContent(content) ==
    /\ Put("openai", <<ContentChunk(chat_id, created_time, content)>>)
    /\ oaYielded' = Append(oaYielded, content)
    /\ oaUnits' = oaUnits + 1
    /\ UNCHANGED <<pcOA, oaEnd, taskExc>>

\* One line (OpenAI-compatible) or one chunk (Gemini) of the summarizer's
\* stream arrives.
OARead ==
    /\ pcOA = "reading"
    /\ oaUnits < MaxUnits
    /\ IF isGemini
       THEN /\ \E chunk \in GeminiChunks(STexts(Len(oaYielded) + 1)) :
                 IF chunk.kind = "text"
                 THEN /\ total_tokens' = total_tokens + TokenEstimate(chunk.text)
                      /\ oaTokenCount' = total_tokens'
                      /\ gemini_tokens' = oaTokenCount'
                      /\ OAContent(chunk.text)
                 ELSE /\ oaUnits' = oaUnits + 1
                      /\ UNCHANGED <<total_tokens, oaTokenCount, gemini_tokens,
                                      output_queue, pushLog, oaYielded, pcOA, oaEnd,
                                      taskExc>>
            /\ malformed' = {}
       ELSE /\ \E unit \in LineUnits(STexts(Len(oaYielded) + 1), {<< >>}) :
                  LET r == OpenAILine(unit) IN
                    /\ malformed' = Noted("openai", unit)
                    /\ IF r.raised
                       THEN OARaised("failed") /\ UNCHANGED oaYielded
                       ELSE IF r.yield = << >>
                       THEN /\ oaUnits' = oaUnits + 1
                            /\ UNCHANGED <<output_queue, pushLog, oaYielded, pcOA,
                                            oaEnd, total_tokens, taskExc>>
                       ELSE OAContent(r.yield[1]) /\ UNCHANGED total_tokens
            /\ UNCHANGED <<oaTokenCount, gemini_tokens>>
    /\ UNCHANGED <<is_origin_reasoning, isGemini, deepseek_tokens, dsTokenCount,
                   messages, chat_id, created_time, reasoning_queue,
                   reasoning_content, tasks_done, pcC, pcDS, dsUnits, sessions,
                   callerMessages, emitted, dsYielded, dsEnd, oaSent, published,
                   callerExc, cs>>

\* The summarizer's stream ends normally.  The Gemini client then takes the
\* provider's own total when the response carries one.
OAEof ==
    /\ pcOA = "reading"
    /\ IF isGemini
       THEN \E usage \in Usages :
              oaTokenCount' = IF usage # << >> THEN usage[1] ELSE oaTokenCount
       ELSE UNCHANGED oaTokenCount
    /\ OAFinally("completed")
    /\ UNCHANGED <<is_origin_reasoning, isGemini, deepseek_tokens, gemini_tokens,
                   dsTokenCount, messages, chat_id, created_time, reasoning_queue,
                   reasoning_content, tasks_done, pcC, pcDS, dsUnits,
                   sessions, callerMessages, emitted, dsYielded,
                   oaYielded, dsEnd, oaSent, published, taskExc, callerExc>>
    /\ malformed' = {}
    /\ UNCHANGED cs

\* The summarizer call fails (status, transport, provider error); the
\* adapter logs and re-raises, process_openai logs.
OAError ==
    /\ pcOA = "reading"
    /\ OARaised("failed")
    /\ UNCHANGED <<instanceVars, messages, chat_id, created_time, reasoning_queue,
                   reasoning_content, tasks_done, pcC, pcDS, dsUnits,
                   sessions, callerMessages, emitted, dsYielded,
                   oaYielded, dsEnd, oaSent, published, callerExc>>
    /\ malformed' = {}
    /\ UNCHANGED cs

\* ------------------------------------------------------------- Composer loop
\* The sentinels the Composer waits for.
StagesToWait == 2

\* Mutant: get() hands out the newest item.
TakeLast(queue) == queue[Len(queue)]

\* output_queue.get(): the item taken.
Take(queue) == Head(queue)

\* The Composer takes one item: a sentinel is counted, a data chunk is
\* yielded; after the last sentinel the terminal marker is yielded.
CGet ==
    /\ pcC = "get"
    /\ output_queue # << >>
    /\ ~LoopBlocked
    /\ LET item == Take(output_queue) IN
         /\ output_queue' = Tail(output_queue)
         /\ IF item = Sentinel
            THEN /\ tasks_done' = tasks_done + 1
                 /\ IF tasks_done' < StagesToWait
                    THEN UNCHANGED <<emitted, pcC>>
                    ELSE /\ emitted' = Append(emitted, DoneMarker)
                         /\ pcC' = "marker"
            ELSE /\ emitted' = Append(emitted, item)
                 /\ UNCHANGED <<tasks_done, pcC>>
    /\ UNCHANGED <<instanceVars, messages, chat_id, created_time, reasoning_queue,
                   reasoning_content, pcDS, pcOA, dsUnits, oaUnits, total_tokens,
                   sessions, callerMessages, pushLog, dsYielded, oaYielded, dsEnd,
                   oaEnd, oaSent, published, taskExc, callerExc>>
    /\ malformed' = {}
    /\ UNCHANGED cs

\* asyncio.gather(deepseek_task, openai_task, return_exceptions=True)
ReturnExceptions == TRUE

\* Mutant: the generator returns once one sentinel has been taken, without
\* waiting for the tasks.
CFinishAfterFirst ==
    /\ pcC \in {"get", "marker"}
    /\ tasks_done >= 1
    /\ pcC' = "returned"
    /\ callerExc' = (~ReturnExceptions /\ taskExc # {})
    /\ UNCHANGED <<instanceVars, messages, chat_id, created_time, output_queue,
                   reasoning_queue, reasoning_content, tasks_done, pcDS, pcOA,
                   dsUnits, oaUnits, total_tokens, sessions, callerMessages,
                   emitted, pushLog, dsYielded, oaYielded, dsEnd, oaEnd, oaSent,
                   published, taskExc>>
    /\ malformed' = {}
    /\ UNCHANGED cs

\* The caller asks for the item after the marker: gather() on the two tasks,
\* then the generator is exhausted.
CFinish ==
    /\ pcC = "marker"
    /\ pcDS = "done"
    /\ pcOA = "done"
    /\ pcC' = "returned"
    /\ callerExc' = (~ReturnExceptions /\ taskExc # {})
    /\ UNCHANGED <<instanceVars, messages, chat_id, created_time, output_queue,
                   reasoning_queue, reasoning_content, tasks_done, pcDS, pcOA,
                   dsUnits, oaUnits, total_tokens, sessions, callerMessages,
                   emitted, pushLog, dsYielded, oaYielded, dsEnd, oaEnd, oaSent,
                   published, taskExc>>
    /\ malformed' = {}
    /\ UNCHANGED cs

\* The caller stops consuming before the marker (closes the generator, or is
\* itself cancelled while the generator waits).  The generator body has no
\* finally and no handler: nothing is done to the two tasks.
Abandon ==
    /\ pcC = "get"
    /\ pcDS # "created"
    /\ pcOA # "created"
    /\ ~LoopBlocked
    /\ pcC' = "abandoned"
    /\ UNCHANGED <<instanceVars, messages, chat_id, created_time, output_queue,
                   reasoning_queue, reasoning_content, tasks_done, pcDS, pcOA,
                   dsUnits, oaUnits, total_tokens, historyVars, cs>>

\* ------------------------------------------------------------- specification
Next ==
    \/ StartSession
    \/ DSStart
    \/ DSRead
    \/ DSEof
    \/ DSError
    \/ OAStart
    \/ OAWake
    \/ OARead
    \/ OAEof
    \/ OAError
    \/ CGet
    \/ CFinish
    \/ Abandon

Spec == Init /\ [][Next]_vars

\* The event loop runs every ready coroutine, a provider's stream eventually
\* delivers a line, ends or fails, and the caller keeps asking for the next
\* item unless it abandons the stream.
DSStep == DSStart \/ DSRead \/ DSEof \/ DSError
OAStep == OAStart \/ OAWake \/ OARead \/ OAEof \/ OAError
CStep == CGet \/ CFinish

FairSpec ==
    /\ Init
    /\ [][Next]_vars
    /\ WF_vars(DSStep)
    /\ WF_vars(OAStep)
    /\ WF_vars(CStep)

\* ------------------------------------------------------------- a log sink that raises
\* Spec and FairSpec take the log sink to work: no call of logger raises.
\* The actions below are the log calls of the two stages that no handler
\* covers, raising.  (A log call that raises inside a try is handled like a
\* failure of the adapter, which DSError and OAError already are.)

\* process_deepseek: logger.info before the try raises.  The task ends with
\* the exception: stream_chat is never called, nothing is published, no
\* sentinel is pushed.
DSLogStart ==
    /\ pcDS = "created"
    /\ pcDS' = "done"
    /\ dsEnd' = "aborted"
    /\ taskExc' = taskExc \cup {"deepseek"}
    /\ UNCHANGED <<instanceVars, messages, chat_id, created_time, output_queue,
                   reasoning_queue, reasoning_content, tasks_done, pcC, pcOA,
                   dsUnits, oaUnits, total_tokens, sessions, callerMessages,
                   emitted, pushLog, dsYielded, oaYielded, oaEnd, oaSent,
                   published, callerExc>>
    /\ malformed' = {}
    /\ UNCHANGED cs

\* process_deepseek: stream_chat raises and logger.error in the except branch
\* raises.  The task ends with the exception before the put on
\* reasoning_queue and before the sentinel.
DSLogExcept ==
    /\ pcDS = "reading"
    /\ pcOA # "created"
    /\ pcDS' = "done"
    /\ dsUnits' = 0
    /\ dsEnd' = "aborted"
    /\ taskExc' = taskExc \cup {"deepseek"}
    /\ UNCHANGED <<instanceVars, messages, chat_id, created_time, output_queue,
                   reasoning_queue, reasoning_content, tasks_done, pcC, pcOA,
                   oaUnits, total_tokens, sessions, callerMessages, emitted,
                   pushLog, dsYielded, oaYielded, oaEnd, oaSent, published,
                   callerExc>>
    /\ malformed' = {}
    /\ UNCHANGED cs

\* process_deepseek: stream_chat raises, the except branch publishes the empty
\* trace, and logger.info after the try raises.  The task ends with the
\* exception before the sentinel.
DSLogEnd ==
    /\ pcDS = "reading"
    /\ pcOA # "created"
    /\ reasoning_queue' = Append(reasoning_queue, TraceOnError(reasoning_content))
    /\ published' = Append(published, TraceOnError(reasoning_content))
    /\ pcDS' = "done"
    /\ dsUnits' = 0
    /\ dsEnd' = "aborted"
    /\ taskExc' = taskExc \cup {"deepseek"}
    /\ UNCHANGED <<instanceVars, messages, chat_id, created_time, output_queue,
                   reasoning_content, tasks_done, pcC, pcOA, oaUnits,
                   total_tokens, sessions, callerMessages, emitted, pushLog,
                   dsYielded, oaYielded, oaEnd, oaSent, callerExc>>
    /\ malformed' = {}
    /\ UNCHANGED cs

\* process_openai: the summarizer adapter raises, the except branch logs, and
\* logger.info in the finally branch raises.  The task ends with the
\* exception before the sentinel.
OALogFinally ==
    /\ pcOA = "reading"
    /\ pcOA' = "done"
    /\ oaEnd' = "aborted"
    /\ oaUnits' = 0
    /\ total_tokens' = 0
    /\ taskExc' = taskExc \cup {"openai"}
    /\ UNCHANGED <<instanceVars, messages, chat_id, created_time, output_queue,
                   reasoning_queue, reasoning_content, tasks_done, pcC, pcDS,
                   dsUnits, sessions, callerMessages, emitted, pushLog,
                   dsYielded, oaYielded, dsEnd, oaSent, published, callerExc>>
    /\ malformed' = {}
    /\ UNCHANGED cs

NextLog ==
    \/ Next
    \/ DSLogStart
    \/ DSLogExcept
    \/ DSLogEnd
    \/ OALogFinally

LogSpec == Init /\ [][NextLog]_vars

FairLogSpec ==
    /\ Init
    /\ [][NextLog]_vars
    /\ WF_vars(DSStep)
    /\ WF_vars(OAStep)
    /\ WF_vars(CStep)

\* ------------------------------------------------------------- calls at the same time
\* Two calls of chat_completions_with_stream on one instance, on one event
\* loop.  Each call has its own locals (cs[s]); the instance attributes
\* (the tallies, the two clients) are shared.

\* Units one adapter call reads when two calls run at the same time.
MaxConcUnits == 2

\* The message list of call s: the two lists are distinct.
ConcMessages(s) == << Msg("user", <<"question of ", s>>) >>

\* Text of the i-th increment the providers yield for call s (the answer of
\* a provider depends on the request).
Digits == <<"1", "2", "3", "4", "5", "6", "7", "8">>
ConcRTexts(s, i) == { <<"r", s, Digits[i]>> }
ConcSTexts(s, i) == { <<"a", s, Digits[i]>> }

\* The reasoner's streams carry no usage record here: the token tallies are
\* attributes of the instance, not part of a queue.
ConcUsages == { << >> }

\* Mutant: the two queues are attributes of the instance, shared by the calls.
QueueOwnerShared(s) == "A"

\* The call whose output_queue and reasoning_queue the closures of call s
\* use: the queues are locals, created anew by each call.
QueueOwner(s) == s

ConcOut(s) == cs[QueueOwner(s)].output_queue
ConcHandoff(s) == cs[QueueOwner(s)].reasoning_queue

\* output_queue.put by a closure of call s.
ConcPut(c, s, items) == [c EXCEPT ![QueueOwner(s)].output_queue = @ \o items]

\* reasoning_queue.put by process_deepseek of call s.
ConcPublish(c, s, trace) ==
    [c EXCEPT ![QueueOwner(s)].reasoning_queue = Append(@, trace),
              ![s].published = Append(@, trace)]

\* A Gemini stream is read synchronously: while any call reads one, no other
\* coroutine of the loop runs.
ConcLoopBlocked == isGemini /\ \E o \in SessionIds : cs[o].pcOA = "reading"
ConcBlocked(s) == isGemini /\ \E o \in SessionIds \ {s} : cs[o].pcOA = "reading"

\* What the actions of the calls leave alone: the one-session variables.
concFrame == <<is_origin_reasoning, isGemini, sessionVars, historyVars>>

\* First __anext__ of call s.
ConcStart(s) ==
    /\ cs[s].pcC = "idle"
    /\ ~ConcLoopBlocked
    /\ \E t \in Clock :
          cs' = [cs EXCEPT ![s].pcC = "get", ![s].pcDS = "created",
                           ![s].pcOA = "created",
                           ![s].messages = ConcMessages(s),
                           ![s].chat_id = ChatId(t), ![s].created_time = t]
    /\ UNCHANGED <<concFrame, deepseek_tokens, gemini_tokens, dsTokenCount,
                   oaTokenCount>>

\* process_deepseek of call s, first step.
ConcDSStart(s) ==
    /\ cs[s].pcDS = "created"
    /\ ~ConcLoopBlocked
    /\ LET m == cs[s].messages IN
         cs' = [cs EXCEPT ![s].pcDS = "reading",
                          ![s].messages =
                              IF RewritesLast(is_origin_reasoning, m)
                              THEN [m EXCEPT ![Len(m)].content = CoTPrompt(@)]
                              ELSE m]
    /\ UNCHANGED <<concFrame, deepseek_tokens, gemini_tokens, dsTokenCount,
                   oaTokenCount>>

\* process_deepseek of call s: content branch, then the sentinel.
ConcDSContent(c, s) ==
    ConcPut(ConcPublish([c EXCEPT ![s].pcDS = "done", ![s].dsUnits = 0], s,
                        TraceOnContent(c[s].reasoning_content)),
            s, <<Sentinel>>)

\* process_deepseek of call s: except branch, then the sentinel.
ConcDSExcept(c, s) ==
    ConcPut(ConcPublish([c EXCEPT ![s].pcDS = "done", ![s].dsUnits = 0], s,
                        TraceOnError(c[s].reasoning_content)),
            s, <<Sentinel>>)

\* One line of the reasoner's stream of call s arrives.
ConcDSRead(s) ==
    /\ cs[s].pcDS = "reading"
    /\ cs[s].pcOA # "created"
    /\ cs[s].dsUnits < MaxConcUnits
    /\ ~ConcLoopBlocked
    /\ \E unit \in LineUnits(ConcRTexts(s, Len(cs[s].dsYielded) + 1), ConcUsages) :
         LET r == DeepSeekLine(unit, dsTokenCount) IN
           /\ dsTokenCount' = r.token_count
           /\ IF r.raised
              THEN /\ cs' = ConcDSExcept(cs, s)
                   /\ UNCHANGED deepseek_tokens
              ELSE IF r.yield = << >>
              THEN /\ cs' = [cs EXCEPT ![s].dsUnits = @ + 1]
                   /\ UNCHANGED deepseek_tokens
              ELSE /\ deepseek_tokens' = r.token_count
                   /\ IF ContentType(is_origin_reasoning) = "reasoning"
                      THEN cs' = ConcPut(
                               [cs EXCEPT
                                  ![s].reasoning_content = Append(@, r.yield[1]),
                                  ![s].dsYielded =
                                      Append(@, [type |-> "reasoning",
                                                 text |-> r.yield[1]]),
                                  ![s].dsUnits = @ + 1],
                               s, <<ReasoningChunk(cs[s].chat_id,
                                                   cs[s].created_time, r.yield[1])>>)
                      ELSE cs' = ConcDSContent(
                               [cs EXCEPT ![s].dsYielded =
                                      Append(@, [type |-> "content",
                                                 text |-> r.yield[1]])], s)
    /\ UNCHANGED <<concFrame, gemini_tokens, oaTokenCount>>

\* The reasoner's stream of call s ends normally.
ConcDSEof(s) ==
    /\ cs[s].pcDS = "reading"
    /\ cs[s].pcOA # "created"
    /\ ~ConcLoopBlocked
    /\ IF is_origin_reasoning
       THEN /\ deepseek_tokens' = dsTokenCount
            /\ cs' = ConcDSContent(
                        [cs EXCEPT ![s].dsYielded =
                               Append(@, [type |-> "content", text |-> << >>])], s)
       ELSE /\ cs' = ConcPut([cs EXCEPT ![s].pcDS = "done", ![s].dsUnits = 0],
                             s, <<Sentinel>>)
            /\ UNCHANGED deepseek_tokens
    /\ UNCHANGED <<concFrame, gemini_tokens, dsTokenCount, oaTokenCount>>

\* The reasoner call of call s fails.
ConcDSError(s) ==
    /\ cs[s].pcDS = "reading"
    /\ cs[s].pcOA # "created"
    /\ ~ConcLoopBlocked
    /\ cs' = ConcDSExcept(cs, s)
    /\ UNCHANGED <<concFrame, deepseek_tokens, gemini_tokens, dsTokenCount,
                   oaTokenCount>>

\* process_openai of call s, first step: wait for the trace.
ConcOAStart(s) ==
    /\ cs[s].pcOA = "created"
    /\ cs[s].pcDS # "created"
    /\ ~ConcLoopBlocked
    /\ cs' = [cs EXCEPT ![s].pcOA = "waiting"]
    /\ UNCHANGED <<concFrame, deepseek_tokens, gemini_tokens, dsTokenCount,
                   oaTokenCount>>

\* process_openai of call s, finally branch.
ConcOAFinally(c, s) ==
    ConcPut([c EXCEPT ![s].pcOA = "done", ![s].oaUnits = 0,
                      ![s].total_tokens = 0], s, <<Sentinel>>)

\* process_openai of call s gets a trace from its reasoning_queue.
ConcOAWake(s) ==
    /\ cs[s].pcOA = "waiting"
    /\ ConcHandoff(s) # << >>
    /\ ~ConcLoopBlocked
    /\ LET trace == Head(ConcHandoff(s))
           reasoning == ReasoningOrPlaceholder(trace)
           m == cs[s].messages
           c1 == [cs EXCEPT ![QueueOwner(s)].reasoning_queue = Tail(@),
                            ![s].got = Append(@, trace)]
       IN  IF ~ValidMessages(m)
           THEN cs' = ConcOAFinally(c1, s)
           ELSE cs' = [c1 EXCEPT
                         ![s].messages =
                             [m EXCEPT ![Len(m)].content = fixed_content(@, reasoning)],
                         ![s].pcOA = "reading",
                         ![s].oaUnits = 0,
                         ![s].total_tokens = 0]
    /\ UNCHANGED <<concFrame, deepseek_tokens, gemini_tokens, dsTokenCount,
                   oaTokenCount>>

\* process_openai of call s, loop body.
ConcOAContent(c, s, content) ==
    ConcPut([c EXCEPT ![s].oaYielded = Append(@, content), ![s].oaUnits = @ + 1],
            s, <<ContentChunk(c[s].chat_id, c[s].created_time, content)>>)

\* One line or chunk of the summarizer's stream of call s arrives.
ConcOARead(s) ==
    /\ cs[s].pcOA = "reading"
    /\ cs[s].oaUnits < MaxConcUnits
    /\ ~ConcBlocked(s)
    /\ IF isGemini
       THEN \E chunk \in GeminiChunks(ConcSTexts(s, Len(cs[s].oaYielded) + 1)) :
              IF chunk.kind = "text"
              THEN LET total == cs[s].total_tokens + TokenEstimate(chunk.text) IN
                     /\ oaTokenCount' = total
                     /\ gemini_tokens' = total
                     /\ cs' = ConcOAContent([cs EXCEPT ![s].total_tokens = total],
                                            s, chunk.text)
              ELSE /\ cs' = [cs EXCEPT ![s].oaUnits = @ + 1]
                   /\ UNCHANGED <<oaTokenCount, gemini_tokens>>
       ELSE /\ \E unit \in LineUnits(ConcSTexts(s, Len(cs[s].oaYielded) + 1),
                                     {<< >>}) :
                  LET r == OpenAILine(unit) IN
                    IF r.raised
                    THEN cs' = ConcOAFinally(cs, s)
                    ELSE IF r.yield = << >>
                    THEN cs' = [cs EXCEPT ![s].oaUnits = @ + 1]
                    ELSE cs' = ConcOAContent(cs, s, r.yield[1])
            /\ UNCHANGED <<oaTokenCount, gemini_tokens>>
    /\ UNCHANGED <<concFrame, deepseek_tokens, dsTokenCount>>

\* The summarizer's stream of call s ends normally.
ConcOAEof(s) ==
    /\ cs[s].pcOA = "reading"
    /\ ~ConcBlocked(s)
    /\ IF isGemini
       THEN \E usage \in Usages :
              oaTokenCount' = IF usage # << >> THEN usage[1] ELSE oaTokenCount
       ELSE UNCHANGED oaTokenCount
    /\ cs' = ConcOAFinally(cs, s)
    /\ UNCHANGED <<concFrame, deepseek_tokens, gemini_tokens, dsTokenCount>>

\* The summarizer call of call s fails.
ConcOAError(s) ==
    /\ cs[s].pcOA = "reading"
    /\ ~ConcBlocked(s)
    /\ cs' = ConcOAFinally(cs, s)
    /\ UNCHANGED <<concFrame, deepseek_tokens, gemini_tokens, dsTokenCount,
                   oaTokenCount>>

\* The Composer of call s takes one item from its output_queue.
ConcCGet(s) ==
    /\ cs[s].pcC = "get"
    /\ ConcOut(s) # << >>
    /\ ~ConcLoopBlocked
    /\ LET item == Take(ConcOut(s))
           c1 == [cs EXCEPT ![QueueOwner(s)].output_queue = Tail(@)]
           n == cs[s].tasks_done + 1
       IN  IF item = Sentinel
           THEN IF n < StagesToWait
                THEN cs' = [c1 EXCEPT ![s].tasks_done = n]
                ELSE cs' = [c1 EXCEPT ![s].tasks_done = n,
                                      ![s].emitted = Append(@, DoneMarker),
                                      ![s].pcC = "marker"]
           ELSE cs' = [c1 EXCEPT ![s].emitted = Append(@, item)]
    /\ UNCHANGED <<concFrame, deepseek_tokens, gemini_tokens, dsTokenCount,
                   oaTokenCount>>

\* The caller of call s asks for the item after the marker: gather(), return.
ConcCFinish(s) ==
    /\ cs[s].pcC = "marker"
    /\ cs[s].pcDS = "done"
    /\ cs[s].pcOA = "done"
    /\ ~ConcLoopBlocked
    /\ cs' = [cs EXCEPT ![s].pcC = "returned"]
    /\ UNCHANGED <<concFrame, deepseek_tokens, gemini_tokens, dsTokenCount,
                   oaTokenCount>>

ConcNext ==
    \E s \in SessionIds :
        \/ ConcStart(s)
        \/ ConcDSStart(s)
        \/ ConcDSRead(s)
        \/ ConcDSEof(s)
        \/ ConcDSError(s)
        \/ ConcOAStart(s)
        \/ ConcOAWake(s)
        \/ ConcOARead(s)
        \/ ConcOAError(s)
        \/ ConcOAEof(s)
        \/ ConcCGet(s)
        \/ ConcCFinish(s)

ConcSpec == Init /\ [][ConcNext]_vars

\* ------------------------------------------------------------- reading the output
IsData(item) == item.sse = "data"
DataOf(seq) == SelectSeq(seq, IsData)
IsReasoningInc(inc) == inc.type = "reasoning"

\* The items put on output_queue so far, and those put by one stage.
Pushed == [i \in 1..Len(pushLog) |-> pushLog[i].item]
PushedBy(stage) ==
    LET log == SelectSeq(pushLog, LAMBDA e : e.by = stage)
    IN  [i \in 1..Len(log) |-> log[i].item]

\* The text a data chunk carries, in whichever field.
ChunkText(item) == Delta(item).reasoning_content \o Delta(item).content

\* Texts of the reasoning-phase increments the reasoner has yielded, in order.
YieldedReasoning ==
    LET incs == SelectSeq(dsYielded, IsReasoningInc)
    IN  [i \in 1..Len(incs) |-> incs[i].text]

\* Texts of the chunks labelled with the reasoner's model, read from the
\* reasoning field, and of those labelled with the summarizer's model, read
\* from the content field, in order.
ReasoningTexts(seq) ==
    LET chunks == SelectSeq(DataOf(seq), LAMBDA c : c.payload.model = deepseek_model)
    IN  [i \in 1..Len(chunks) |-> Delta(chunks[i]).reasoning_content]
ContentTexts(seq) ==
    LET chunks == SelectSeq(DataOf(seq), LAMBDA c : c.payload.model = target_model)
    IN  [i \in 1..Len(chunks) |-> Delta(chunks[i]).content]

IsPrefix(a, b) == Len(a) <= Len(b) /\ a = SubSeq(b, 1, Len(a))
EndsWith(seq, suffix) ==
    /\ Len(suffix) <= Len(seq)
    /\ SubSeq(seq, Len(seq) - Len(suffix) + 1, Len(seq)) = suffix

\* The output stream has been consumed to the end.
Ended == emitted # << >> /\ emitted[Len(emitted)] = DoneMarker
ConsumedToEnd == pcC \in {"marker", "returned"}
MarkerIsLast == \A i \in 1..Len(emitted) : emitted[i] = DoneMarker => i = Len(emitted)

\* How often a text occurs among the data chunks of a sequence.
Occurrences(text, seq) ==
    Cardinality({ i \in 1..Len(seq) : IsData(seq[i]) /\ ChunkText(seq[i]) = text })

\* ------------------------------------------------------------- claims
\* C1: every session whose output is consumed to the end eventually yields the
\* terminal marker, yields it once, and yields nothing after it, however the
\* two adapters end.
C1_EndsWithMarker ==
    /\ [](MarkerIsLast)
    /\ ((pcC = "get") ~> (Ended \/ pcC = "abandoned"))

\* C2, as stated: once the stream is consumed to the end, every increment the
\* reasoner yielded and every increment the summarizer yielded occurs exactly
\* once among the data chunks of the output.
C2_EveryIncrementOnce ==
    ConsumedToEnd =>
        /\ \A i \in 1..Len(dsYielded) : Occurrences(dsYielded[i].text, emitted) = 1
        /\ \A i \in 1..Len(oaYielded) : Occurrences(oaYielded[i], emitted) = 1

\* C2, amended: the reasoning-phase increments of the reasoner and the
\* increments of the summarizer are never duplicated or reordered on their way
\* to the caller, and once the stream is consumed to the end each of them has
\* been emitted exactly once; the reasoner's content-phase increment, which
\* ends the reasoning, is the one increment that produces no chunk.
C2_NoDropNoDup ==
    /\ ReasoningTexts(Pushed) = YieldedReasoning
    /\ ContentTexts(Pushed) = oaYielded
    /\ Len(DataOf(Pushed)) = Len(YieldedReasoning) + Len(oaYielded)
    /\ DataOf(emitted) \o DataOf(output_queue) = DataOf(Pushed)
    /\ ConsumedToEnd =>
         /\ ReasoningTexts(emitted) = YieldedReasoning
         /\ ContentTexts(emitted) = oaYielded
         /\ \A i \in 1..Len(YieldedReasoning) :
               Occurrences(YieldedReasoning[i], emitted) = 1
         /\ \A i \in 1..Len(oaYielded) : Occurrences(oaYielded[i], emitted) = 1
         /\ \A i \in 1..Len(dsYielded) :
               ~IsReasoningInc(dsYielded[i]) =>
                   Occurrences(dsYielded[i].text, emitted) = 0

\* C2 witness: a session consumed to the end in which the reasoner yielded two
\* reasoning increments and the content increment, and the summarizer two.
C2_Witness ==
    /\ pcC = "returned"
    /\ dsEnd = "content"
    /\ Len(dsYielded) >= 3
    /\ Len(oaYielded) >= 2

\* C5: once the caller has abandoned the stream, no stage task takes another
\* step and no adapter call reads another unit.
C5_NoStepAfterAbandon ==
    [][pcC = "abandoned" =>
          /\ pcDS' = pcDS
          /\ pcOA' = pcOA
          /\ dsUnits' = dsUnits
          /\ oaUnits' = oaUnits]_vars

\* C6: the two tallies are zero when a session starts, and never decrease
\* while it runs.
C6_TalliesResetAndGrow ==
    [][IF pcC \in {"idle", "returned"} /\ pcC' = "get"
       THEN deepseek_tokens' = 0 /\ gemini_tokens' = 0
       ELSE deepseek_tokens' >= deepseek_tokens /\ gemini_tokens' >= gemini_tokens]_vars

\* C3, as stated: whenever the reasoner has failed and the stream has been
\* consumed to the end, the summarizer adapter has been called.
C3_SummarizerAlwaysCalled ==
    (dsEnd = "failed" /\ ConsumedToEnd) => oaSent # << >>

\* C3, amended: when the reasoner fails, at once or after some reasoning
\* increments, the trace published is the empty one; if the message list is
\* non-empty and ends with a user message the Summarization Stage calls the
\* summarizer adapter, and any prompt it sends embeds the placeholder where the
\* trace would be; no exception reaches the caller; and the session still
\* ends with the terminal marker.
C3_ReasonerFailure ==
    /\ [](dsEnd = "failed" =>
            /\ published = << << >> >>
            /\ taskExc = {}
            /\ ~callerExc
            /\ (ValidMessages(callerMessages) /\ pcOA \in {"reading", "done"}) =>
                  oaSent # << >>
            /\ oaSent # << >> =>
                  LET sent == oaSent[1]
                  IN  EndsWith(sent[Len(sent)].content, combined_content(Placeholder)))
    /\ ((dsEnd = "failed" /\ pcC = "get") ~> (Ended \/ pcC = "abandoned"))

\* C3 witness: the reasoner failed after a reasoning increment, the summarizer
\* was called and answered, and the stream was consumed to the end.
C3_Witness ==
    /\ dsEnd = "failed"
    /\ Len(dsYielded) >= 1
    /\ oaSent # << >>
    /\ Len(oaYielded) >= 1
    /\ pcC = "returned"
    /\ Ended

\* C4: with an empty message list, or a last message that is not the user's,
\* the summarizer adapter is never called and no content chunk is pushed, the
\* reasoning chunks all reach the caller, the Summarization Stage fails
\* validation and the session ends with the terminal marker.
C4_InvalidMessages ==
    /\ []((pcC # "idle" /\ ~ValidMessages(callerMessages)) =>
            /\ oaSent = << >>
            /\ ContentTexts(Pushed) = << >>
            /\ ConsumedToEnd => (ReasoningTexts(emitted) = YieldedReasoning /\ Ended))
    /\ ((pcC = "get" /\ ~ValidMessages(callerMessages))
            ~> ((Ended /\ oaEnd = "invalid") \/ pcC = "abandoned"))

\* C7: when the last message is the user's, the reasoner yields n reasoning
\* increments and then a content increment, and the summarizer yields m
\* increments and completes, the output is the n reasoning chunks in order,
\* the m content chunks in order, and the terminal marker: n+m+1 events.
C7_ReasoningThenContentThenMarker ==
    (/\ ConsumedToEnd
     /\ ValidMessages(callerMessages)
     /\ dsEnd = "content"
     /\ oaEnd = "completed")
    => LET n == Len(YieldedReasoning)
           m == Len(oaYielded)
       IN  /\ Len(dsYielded) = n + 1
           /\ Len(emitted) = n + m + 1
           /\ \A i \in 1..n :
                 /\ IsData(emitted[i])
                 /\ Delta(emitted[i]).reasoning_content = dsYielded[i].text
                 /\ Delta(emitted[i]).content = << >>
           /\ \A j \in 1..m :
                 /\ IsData(emitted[n + j])
                 /\ Delta(emitted[n + j]).content = oaYielded[j]
                 /\ Delta(emitted[n + j]).reasoning_content = << >>
           /\ emitted[n + m + 1] = DoneMarker

\* C7 witness: the scenario of the specification, four reasoning increments,
\* the content increment, four answer increments: nine events.
C7_Witness ==
    /\ pcC = "returned"
    /\ callerMessages = << Msg("user", <<"What is 2+2?">>) >>
    /\ dsEnd = "content"
    /\ oaEnd = "completed"
    /\ YieldedReasoning = SubSeq(RText, 1, 4)
    /\ oaYielded = SubSeq(SText, 1, 4)
    /\ Len(emitted) = 9

\* C8: a data chunk pushed by the Reasoning-Capture Stage carries the
\* increment's text in the reasoning field, an empty content field and the
\* reasoner's model label; one pushed by the Summarization Stage carries it in
\* the content field, with an empty reasoning field and the summarizer's
\* label; no chunk, pushed or emitted, has text in both fields.
C8_PhaseFields ==
    /\ \A k \in 1..Len(pushLog) :
          LET e == pushLog[k] IN
            IsData(e.item) =>
              IF e.by = "deepseek"
              THEN /\ Delta(e.item).reasoning_content # << >>
                   /\ Delta(e.item).content = << >>
                   /\ e.item.payload.model = deepseek_model
              ELSE /\ Delta(e.item).content # << >>
                   /\ Delta(e.item).reasoning_content = << >>
                   /\ e.item.payload.model = target_model
    /\ ReasoningTexts(PushedBy("deepseek")) = YieldedReasoning
    /\ ContentTexts(PushedBy("openai")) = oaYielded
    /\ \A i \in 1..Len(emitted) :
          IsData(emitted[i]) =>
             (Delta(emitted[i]).reasoning_content = << >>
                 \/ Delta(emitted[i]).content = << >>)

\* C8 witness: chunks of both stages have reached the caller.
C8_Witness ==
    /\ Len(ReasoningTexts(emitted)) >= 1
    /\ Len(ContentTexts(emitted)) >= 1

\* C9: the Composer forwards the items in the order they arrived on the
\* output channel: the queue is the part of the arrivals not yet taken, the
\* chunks emitted are the data items taken, in arrival order, and within each
\* stage the emitted texts follow the order in which the adapter yielded them.
C9_ArrivalOrder ==
    LET taken == Len(pushLog) - Len(output_queue) IN
      /\ taken >= 0
      /\ output_queue = SubSeq(Pushed, taken + 1, Len(pushLog))
      /\ DataOf(emitted) = DataOf(SubSeq(Pushed, 1, taken))
      /\ IsPrefix(ReasoningTexts(emitted), YieldedReasoning)
      /\ IsPrefix(ContentTexts(emitted), oaYielded)

\* C9 witness: two chunks of each stage have been forwarded.
C9_Witness ==
    /\ Len(ReasoningTexts(emitted)) >= 2
    /\ Len(ContentTexts(emitted)) >= 2

\* C10: when the summarizer adapter fails, the content chunks it produced
\* before stay on their way to the caller and nothing emitted is taken back,
\* the Summarization Stage pushes its sentinel as its last item, no exception
\* reaches the caller and the session ends with the terminal marker.
C10_SummarizerFailure ==
    /\ [](oaEnd = "failed" =>
            /\ ContentTexts(DataOf(emitted) \o DataOf(output_queue)) = oaYielded
            /\ PushedBy("openai") # << >>
            /\ PushedBy("openai")[Len(PushedBy("openai"))] = Sentinel
            /\ Len(SelectSeq(PushedBy("openai"), LAMBDA x : x = Sentinel)) = 1
            /\ taskExc = {}
            /\ ~callerExc
            /\ ConsumedToEnd => (ContentTexts(emitted) = oaYielded /\ Ended))
    /\ [][(oaEnd = "failed" /\ oaEnd' = "failed") => IsPrefix(emitted, emitted')]_vars
    /\ ((oaEnd = "failed" /\ pcC = "get") ~> (Ended \/ pcC = "abandoned"))

\* C10 witness: the summarizer failed after two increments and the stream was
\* consumed to the end.
C10_Witness ==
    /\ oaEnd = "failed"
    /\ Len(oaYielded) >= 2
    /\ pcC = "returned"
    /\ Ended

\* C11: whenever the reasoner adapter has completed normally without having
\* yielded a content-phase increment, the trace has been published exactly
\* once, and a Summarization Stage that waits for it does not wait for ever.
C11_PublishedOnCompletion ==
    /\ [](dsEnd = "exhausted" => Len(published) = 1)
    /\ ((dsEnd = "exhausted" /\ pcOA = "waiting") ~> (pcOA # "waiting"))

\* C12: in every state of a session at most one trace has been put on the
\* handoff queue, the queue holds that trace or nothing, and a reasoner that
\* ended by a content increment or by a failure has published exactly one.
C12_PublishedAtMostOnce ==
    /\ Len(published) <= 1
    /\ reasoning_queue \in {<< >>, published}
    /\ dsEnd \in {"content", "failed"} => Len(published) = 1
    /\ dsEnd = "none" => published = << >>

\* C12 witness: the reasoner ended by a content increment after two reasoning
\* increments, the trace was taken and the session was consumed to the end.
C12_Witness ==
    /\ dsEnd = "content"
    /\ Len(YieldedReasoning) >= 2
    /\ Len(published) = 1
    /\ reasoning_queue = << >>
    /\ pcC = "returned"

\* C13: as long as no trace has been published the Summarization Stage has
\* not called the summarizer adapter, has pushed nothing on the output
\* channel, and is not past its wait on the handoff queue.
C13_BlockedUntilPublished ==
    published = << >> =>
        /\ oaSent = << >>
        /\ oaYielded = << >>
        /\ PushedBy("openai") = << >>
        /\ pcOA \in {"none", "created", "waiting"}

\* C13 witness: the stage waited while the reasoner produced two reasoning
\* chunks, then got the trace, called the summarizer and pushed a content chunk.
C13_Witness ==
    /\ Len(YieldedReasoning) >= 2
    /\ published # << >>
    /\ oaSent # << >>
    /\ Len(ContentTexts(PushedBy("openai"))) >= 1

\* The sentinels among a sequence of items.
Sentinels(seq) == SelectSeq(seq, LAMBDA x : x = Sentinel)

\* C14: a stage has pushed no sentinel while it runs and exactly one once it
\* has ended, however it ended, and that sentinel is the last item it pushed;
\* the Composer has counted exactly the sentinels it has taken, it has emitted
\* the terminal marker only with two sentinels taken, and no sentinel is ever
\* among the items emitted to the caller.
C14_OneSentinelEach ==
    /\ Len(Sentinels(PushedBy("deepseek"))) = IF pcDS = "done" THEN 1 ELSE 0
    /\ Len(Sentinels(PushedBy("openai"))) = IF pcOA = "done" THEN 1 ELSE 0
    /\ \A stage \in {"deepseek", "openai"} :
          LET items == PushedBy(stage)
          IN  \A i \in 1..Len(items) : items[i] = Sentinel => i = Len(items)
    /\ tasks_done = Len(Sentinels(Pushed)) - Len(Sentinels(output_queue))
    /\ Sentinels(emitted) = << >>
    /\ (\E i \in 1..Len(emitted) : emitted[i] = DoneMarker) <=> tasks_done = 2
    /\ tasks_done <= 2

\* C14 witness: the reasoner failed after a reasoning chunk, the summarizer
\* completed after a content chunk, both sentinels were taken and the marker
\* was emitted.
C14_Witness ==
    /\ dsEnd = "failed"
    /\ oaEnd = "completed"
    /\ Len(ReasoningTexts(emitted)) >= 1
    /\ Len(ContentTexts(emitted)) >= 1
    /\ tasks_done = 2
    /\ Ended

\* C15: the last message passed to the summarizer adapter has as content
\* "Here's my original input:", then the content the caller supplied in its
\* last user message, then the instruction block embedding the published
\* trace, or the placeholder when that trace is empty.
C15_OriginalPreserved ==
    (oaSent # << >> /\ Len(published) = 1) =>
        LET sent == oaSent[1]
            original == callerMessages[Len(callerMessages)].content
        IN  sent[Len(sent)].content =
                fixed_content(original, ReasoningOrPlaceholder(published[1]))

\* C16: no stage writes to the message objects of the session: at every point
\* of a session, and after it, the message list holds the contents the caller
\* passed.
C16_MessagesUntouched ==
    pcC # "idle" => messages = callerMessages

\* C17: when the reasoner ended by a content increment, the one trace
\* published is the concatenation, in order, of the texts of the reasoning
\* increments yielded before it, which is the concatenation of the texts of
\* the reasoning chunks pushed to the output and, once the stream is consumed
\* to the end, of those emitted; when the reasoner failed, the one trace
\* published is empty, whatever was emitted before.
C17_TraceIsConcatenation ==
    /\ dsEnd = "content" =>
          /\ published = << Join(YieldedReasoning) >>
          /\ published = << Join(ReasoningTexts(PushedBy("deepseek"))) >>
          /\ ConsumedToEnd => published = << Join(ReasoningTexts(emitted)) >>
    /\ dsEnd = "failed" => published = << << >> >>

\* C17 witness: the reasoner yielded three reasoning increments and then the
\* content increment, and the stream was consumed to the end.
C17_Witness ==
    /\ dsEnd = "content"
    /\ Len(YieldedReasoning) = 3
    /\ published = << RText[1] \o RText[2] \o RText[3] >>
    /\ Len(ReasoningTexts(emitted)) = 3
    /\ ConsumedToEnd

\* C18: when a log call of a stage has raised and ended the stage's task, the
\* trace has still been published, the stage has still pushed its sentinel,
\* and a session that is consumed still ends with the terminal marker.
C18_LogFailureHarmless ==
    /\ []("deepseek" \in taskExc =>
            /\ Len(published) = 1
            /\ Len(Sentinels(PushedBy("deepseek"))) = 1)
    /\ []("openai" \in taskExc => Len(Sentinels(PushedBy("openai"))) = 1)
    /\ ((taskExc # {} /\ pcC = "get") ~> (Ended \/ pcC = "abandoned"))

\* C19: when the generator is exhausted, after the terminal marker, both
\* stage tasks have ended: neither is pending, waiting or reading.
C19_TasksFinishedAtExhaustion ==
    pcC = "returned" =>
        /\ pcDS = "done"
        /\ pcOA = "done"
        /\ Ended

\* C19 witness: the generator is exhausted after a session in which the
\* summarizer was called and one of the stages ended by a failure.
C19_Witness ==
    /\ pcC = "returned"
    /\ oaSent # << >>
    /\ (dsEnd = "failed" \/ oaEnd = "failed")
    /\ pcDS = "done"
    /\ pcOA = "done"

\* C20: every data chunk put on the output channel or emitted to the caller
\* carries the identifier and the creation timestamp of the session, and these
\* two change only when a session starts.
C20_SameIdAndTimestamp ==
    /\ [](\A i \in 1..Len(pushLog) :
            IsData(pushLog[i].item) =>
               /\ pushLog[i].item.payload.id = chat_id
               /\ pushLog[i].item.payload.created = created_time)
    /\ [](\A k \in 1..Len(emitted) :
            IsData(emitted[k]) =>
               /\ emitted[k].payload.id = chat_id
               /\ emitted[k].payload.created = created_time)
    /\ [][(pcC' # "get" \/ pcC \notin {"idle", "returned"}) =>
             (chat_id' = chat_id /\ created_time' = created_time)]_vars

\* C20 witness: in a later session of the instance, chunks of both stages
\* have been emitted and the stream was consumed to the end.
C20_Witness ==
    /\ sessions = "later"
    /\ Len(ReasoningTexts(emitted)) >= 1
    /\ Len(ContentTexts(emitted)) >= 1
    /\ pcC = "returned"

\* C21: a malformed unit never ends an adapter call: right after the reasoner
\* or the summarizer adapter has read a line that is not valid JSON, or a line
\* of valid JSON of unexpected shape, the call is still reading its stream and
\* the stage has not ended.
C21_MalformedSkipped ==
    \A m \in malformed :
        IF m.by = "deepseek"
        THEN pcDS = "reading" /\ dsEnd = "none"
        ELSE pcOA = "reading" /\ oaEnd = "none"

\* Is a data chunk of the reasoning phase, of the content phase?
IsReasoningChunk(item) == IsData(item) /\ Delta(item).reasoning_content # << >>
IsContentChunk(item) == IsData(item) /\ Delta(item).content # << >>

\* In a sequence of items no reasoning chunk comes after a content chunk.
ReasoningFirst(seq) ==
    \A i, j \in 1..Len(seq) :
        (IsContentChunk(seq[i]) /\ IsReasoningChunk(seq[j])) => j < i

\* C22: in every execution, whichever way the stages end and interleave, no
\* reasoning chunk follows a content chunk, neither among the items put on
\* the output channel nor among the items emitted to the caller.
C22_ReasoningBeforeContent ==
    /\ ReasoningFirst(Pushed)
    /\ ReasoningFirst(emitted)
    /\ ReasoningFirst(emitted \o output_queue)

\* C22 witness: the reasoner failed after two reasoning chunks, the
\* summarizer answered, and chunks of both phases were emitted.
C22_Witness ==
    /\ dsEnd = "failed"
    /\ Len(SelectSeq(emitted, IsReasoningChunk)) >= 2
    /\ Len(SelectSeq(emitted, IsContentChunk)) >= 2

\* C23: once the trace is published the Reasoning-Capture Stage has ended with
\* its sentinel as the last item it pushed; from then on it takes no further
\* increment from the reasoner and pushes nothing; and the text of the content
\* increment that triggered the publication is in no data chunk.
C23_NothingAfterPublication ==
    /\ [](published # << >> =>
            /\ pcDS = "done"
            /\ PushedBy("deepseek") # << >>
            /\ PushedBy("deepseek")[Len(PushedBy("deepseek"))] = Sentinel
            /\ Len(DataOf(PushedBy("deepseek"))) = Len(YieldedReasoning)
            /\ \A k \in 1..Len(dsYielded) :
                  dsYielded[k].type = "content" =>
                     /\ k = Len(dsYielded)
                     /\ Occurrences(dsYielded[k].text, Pushed) = 0)
    /\ [][(published # << >> /\ published' # << >>) =>
             /\ dsYielded' = dsYielded
             /\ dsUnits' = dsUnits
             /\ PushedBy("deepseek")' = PushedBy("deepseek")]_vars

\* C23 witness: without reasoning mode the reasoner yielded a content
\* increment with text, the trace was published, the summarizer answered and
\* the stream was consumed to the end.
C23_Witness ==
    /\ ~is_origin_reasoning
    /\ dsEnd = "content"
    /\ dsYielded # << >>
    /\ dsYielded[Len(dsYielded)].text # << >>
    /\ Len(oaYielded) >= 1
    /\ pcC = "returned"

\* C25: in reasoning mode every increment the DeepSeek adapter yields before
\* its last is a "reasoning" increment with text; a call that completed
\* yielded exactly one "content" increment, the last one, with empty text; a
\* call that failed yielded no "content" increment and its exception reached
\* the stage, which published the empty trace.
C25_ReasoningModeTags ==
    is_origin_reasoning =>
        /\ dsEnd # "exhausted"
        /\ \A k \in 1..Len(dsYielded) :
              IF dsEnd = "content" /\ k = Len(dsYielded)
              THEN dsYielded[k] = [type |-> "content", text |-> << >>]
              ELSE dsYielded[k].type = "reasoning" /\ dsYielded[k].text # << >>
        /\ dsEnd = "content" => dsYielded # << >>
        /\ dsEnd = "failed" => (published = << << >> >> /\ taskExc = {})

\* C25 witness: in reasoning mode the adapter yielded two reasoning
\* increments and then, at the end of the stream, the empty content increment.
C25_Witness ==
    /\ is_origin_reasoning
    /\ dsEnd = "content"
    /\ Len(dsYielded) = 3
    /\ dsYielded[3] = [type |-> "content", text |-> << >>]

\* The call whose adapters yielded the text of a data chunk.
ConcTag(item) == ChunkText(item)[2]

\* Texts of the reasoning increments the reasoner of a call has yielded.
ConcYieldedReasoning(c) ==
    LET incs == SelectSeq(c.dsYielded, IsReasoningInc)
    IN  [i \in 1..Len(incs) |-> incs[i].text]

\* The stage tasks of a call that have ended.
ConcEnded(c) ==
    (IF c.pcDS = "done" THEN 1 ELSE 0) + (IF c.pcOA = "done" THEN 1 ELSE 0)

\* C24: for each of two calls running at the same time on one instance with
\* distinct message lists: every data chunk it has emitted or holds in its
\* output queue is built from an increment of its own adapters, in the order
\* yielded; the trace its summarizer got is the one its own reasoner
\* published; the sentinels it has counted are those of its own two stages,
\* and it has emitted the terminal marker only when both have ended.
C24_NoInterference ==
    \A s \in SessionIds :
        LET c == cs[s]
            own == c.emitted \o c.output_queue
        IN  /\ \A i \in 1..Len(own) : IsData(own[i]) => ConcTag(own[i]) = s
            /\ ReasoningTexts(own) = ConcYieldedReasoning(c)
            /\ ContentTexts(own) = c.oaYielded
            /\ Len(c.published) <= 1
            /\ c.got \in {<< >>, c.published}
            /\ c.reasoning_queue \in {<< >>, c.published}
            /\ c.tasks_done = ConcEnded(c) - Len(Sentinels(c.output_queue))
            /\ c.tasks_done <= 2
            /\ c.pcC \in {"marker", "returned"} <=> c.tasks_done = 2
            /\ Sentinels(c.emitted) = << >>

\* C24 witness: both calls are under way at the same time, each has emitted
\* a reasoning chunk and a content chunk of its own and waits for more.
C24_Witness ==
    \A s \in SessionIds :
        /\ cs[s].pcC = "get"
        /\ cs[s].pcOA = "reading"
        /\ Len(ReasoningTexts(cs[s].emitted)) >= 1
        /\ Len(ContentTexts(cs[s].emitted)) >= 1
====
